---------------------------- MODULE Spec2Model ----------------------------
(***************************************************************************)
(* State-machine model of the agent framework in src/agents/base_agent.py  *)
(* (BaseAgent, MessageBus, Orchestrator) and of the concrete agents in     *)
(* src/agents/route_agents.py (Planner, Weather, Fuel, Network, Optimizer, *)
(* Critic).                                                                *)
(*                                                                         *)
(* Scheduling.  The program runs on one asyncio event loop.  A coroutine   *)
(* is suspended only where it awaits something that is not ready: the      *)
(* get() of an empty inbox (base_agent.py:134) and the asyncio.sleep of a  *)
(* worker (route_agents.py:170, 245, 289, 348).  put() on the unbounded    *)
(* inbox never suspends, so MessageBus.send and everything between two     *)
(* suspension points is one atomic step.  The model takes one step per     *)
(* dequeued message up to the handler's sleep (process_messages) and one   *)
(* step from the end of the sleep to the end of the handler (resume); any  *)
(* other task may run between two steps.                                   *)
(*                                                                         *)
(* BaseAgent.handle_request is abstract and PlannerAgent and CriticAgent   *)
(* do not override it; the model gives them the body the base class        *)
(* declares (pass).                                                        *)
(***************************************************************************)
EXTENDS Integers, Sequences, FiniteSets, TLC

(***************************************************************************)
(* Bounds of the model.                                                    *)
(***************************************************************************)
MaxSessions == 2      \* set_goal calls
MaxStarts == 1        \* start_optimization calls that route a Command
MaxExternal == 1      \* Responses a responder repeats, in the workflow
MaxSends == 2         \* send_message calls made on the bare bus
MaxLimit == 2         \* the largest limit get_message_history is called with
MaxRestarts == 2      \* start_optimization calls for one session, where it is restarted

(***************************************************************************)
(* Program constants: the handlers' sleeps, in tenths of a second.         *)
(***************************************************************************)
WeatherSleep == 5
FuelSleep == 3
NetworkSleep == 2
OptimizerSleep == 20

(***************************************************************************)
(* Agent instances.  An instance is an object; agent_id is the identifier  *)
(* its constructor fixes.  weather_b is a second WeatherAgent object, with *)
(* the same identifier as weather.                                         *)
(***************************************************************************)
Instances == {"planner", "weather", "fuel", "network", "optimizer", "critic", "weather_b"}
DemoInstances == {"planner", "weather", "fuel", "network", "optimizer", "critic"}

agent_class(i) == IF i = "weather_b" THEN "weather" ELSE i

agent_id(i) == agent_class(i)

AgentIds == {agent_id(i) : i \in Instances}

\* AgentStatus
IDLE == "idle"
WORKING == "working"
ERROR == "error"

\* MessageType
REQUEST == "REQUEST"
RESPONSE == "RESPONSE"
EVENT == "EVENT"
COMMAND == "COMMAND"

\* MessageType.value
type_value(t) ==
    CASE t = REQUEST -> "request"
      [] t = RESPONSE -> "response"
      [] t = EVENT -> "event"
      [] t = COMMAND -> "command"

\* Python's None, for a value that is otherwise a dict, and for one that is
\* otherwise a string; a missing correlation id or context is 0 (session
\* identifiers are 1, 2, ...).
None == [none |-> TRUE]
NoneStr == "None"
NoSession == 0

Range(s) == {s[k] : k \in DOMAIN s}

Max(a, b) == IF a >= b THEN a ELSE b

Min(a, b) == IF a <= b THEN a ELSE b

VARIABLES
    agents,           \* MessageBus.agents: agent id -> instance
    message_log,      \* MessageBus.message_log
    active_goals,     \* Orchestrator.active_goals: session id -> AgentContext
    status,           \* BaseAgent.status
    message_queue,    \* BaseAgent.message_queue: the ids of the queued messages
    context,          \* BaseAgent.context: the session id of the bound context
    message_bus,      \* BaseAgent.message_bus: is the bus set
    tasks_completed,
    tasks_failed,
    total_time,
    pc,               \* where process_messages stands: "get", "sleep", "stopped"
    current,          \* the message whose handler is suspended, as <<id>>
    dispatched,       \* history: the messages each loop has dequeued
    raised,           \* history: the messages whose handler raised
    registered,       \* history: agent id -> the instance of its last register_agent
    starts,           \* history: Commands routed by start_optimization
    external,         \* history: send_message calls made from outside the handlers
    route_calls,      \* history: the calls of MessageBus.send made so far
    result            \* what the call that made the last step returned or raised

vars == <<agents, message_log, active_goals, status, message_queue, context,
          message_bus, tasks_completed, tasks_failed, total_time, pc, current,
          dispatched, raised, registered, starts, external, route_calls, result>>

agent_vars == <<status, tasks_completed, tasks_failed, total_time, pc, current,
                dispatched, raised>>

(***************************************************************************)
(* AgentMessage.  The uuid and the timestamp of a message are both its     *)
(* position in the order of construction; every message the program        *)
(* constructs is routed at once, so that is its position in the log.       *)
(***************************************************************************)
AgentMessage(log, from, to, type, payload, corr) ==
    [id |-> Len(log) + 1, from_agent |-> from, to_agent |-> to, type |-> type,
     payload |-> payload, timestamp |-> Len(log) + 1, correlation_id |-> corr]

to_dict(m) ==
    [id |-> m.id, from |-> m.from_agent, to |-> m.to_agent,
     type |-> type_value(m.type), payload |-> m.payload,
     timestamp |-> <<"iso", m.timestamp>>, correlation_id |-> m.correlation_id]

(***************************************************************************)
(* AgentContext.  data is a dict: a function whose domain is its keys.     *)
(***************************************************************************)
AgentContext(session_id, goal, data) ==
    [session_id |-> session_id, goal |-> goal, data |-> data]

dict_get(d, key, default) == IF key \in DOMAIN d THEN d[key] ELSE default

dict_set(d, key, value) ==
    [k \in DOMAIN d \cup {key} |-> IF k = key THEN value ELSE d[k]]

EmptyDict == <<>>

(***************************************************************************)
(* The part of the state a handler reads and writes while it runs: the     *)
(* log, the inboxes, the contexts, and the exception it has raised.        *)
(***************************************************************************)
NoExc == "none"

World ==
    [message_log |-> message_log, message_queue |-> message_queue,
     active_goals |-> active_goals, exc |-> NoExc, asleep |-> FALSE,
     route_calls |-> route_calls]

Commit(w) ==
    /\ message_log' = w.message_log
    /\ message_queue' = w.message_queue
    /\ active_goals' = w.active_goals
    /\ route_calls' = w.route_calls

Raise(w, e) == IF w.exc = NoExc THEN [w EXCEPT !.exc = e] ELSE w

ctx_get(w, sid, key, default) == dict_get(w.active_goals[sid].data, key, default)

ctx_set(w, sid, key, value) ==
    [w EXCEPT !.active_goals[sid].data = dict_set(@, key, value)]

(***************************************************************************)
(* MessageBus                                                              *)
(***************************************************************************)
\* receive_message, were the inbox a stack
receive_message_lifo(queue, message) == <<message.id>> \o queue

receive_message(queue, message) == Append(queue, message.id)

\* The recipients of a broadcast, were the sender not left out
BroadcastRecipients_all(message) == Range(agents)

BroadcastRecipients(message) ==
    {agents[a] : a \in {b \in DOMAIN agents : b # message.from_agent}}

\* The recipients of a unicast, were an unknown identifier taken for all
UnicastRecipients_default(message) ==
    IF message.to_agent \in DOMAIN agents THEN {agents[message.to_agent]} ELSE Range(agents)

UnicastRecipients(message) ==
    IF message.to_agent \in DOMAIN agents THEN {agents[message.to_agent]} ELSE {}

Recipients(message) ==
    IF message.to_agent = "broadcast"
    THEN BroadcastRecipients(message)
    ELSE UnicastRecipients(message)

\* send, were only a message that has a recipient put in the log
send_delivered_only(w, message) ==
    IF Recipients(message) = {}
    THEN [w EXCEPT !.route_calls = @ + 1]
    ELSE [w EXCEPT !.message_log = Append(@, message),
                   !.route_calls = @ + 1,
                   !.message_queue =
                       [i \in Instances |->
                           IF i \in Recipients(message)
                           THEN receive_message(@[i], message)
                           ELSE @[i]]]

send(w, message) ==
    [w EXCEPT !.message_log = Append(@, message),
              !.route_calls = @ + 1,
              !.message_queue =
                  [i \in Instances |->
                      IF i \in Recipients(message)
                      THEN receive_message(@[i], message)
                      ELSE @[i]]]

get_message_history(log, limit) ==
    LET n == Len(log)
        \* log[-limit:]: a negative start counts from the end, and -0 is 0
        start == IF limit = 0 THEN 0 ELSE Max(n - limit, 0)
    IN [k \in 1..(n - start) |-> to_dict(log[start + k])]

(***************************************************************************)
(* BaseAgent.send_message and broadcast_event                              *)
(***************************************************************************)
\* send_message, were a missing bus passed over in silence
send_message_silent(w, i, to, type, payload, corr) ==
    IF w.exc # NoExc THEN w
    ELSE IF ~message_bus[i] THEN w
    ELSE send(w, AgentMessage(w.message_log, agent_id(i), to, type, payload, corr))

send_message(w, i, to, type, payload, corr) ==
    IF w.exc # NoExc THEN w
    ELSE IF ~message_bus[i] THEN Raise(w, "RuntimeError")
    ELSE send(w, AgentMessage(w.message_log, agent_id(i), to, type, payload, corr))

broadcast_event(w, i, event_type, data) ==
    send_message(w, i, "broadcast", EVENT,
                 [event |-> event_type, data |-> data], NoSession)


(***************************************************************************)
(* Handlers.  Each takes the world as the handler finds it and gives the   *)
(* world as it leaves it: at its end, at the exception it raises, or at    *)
(* its sleep (asleep).  d[key] on a dict raises when the key is missing    *)
(* and when d is None.                                                     *)
(***************************************************************************)
Now(w) == Len(w.message_log)

HasKey(d, key) == d # None /\ key \in DOMAIN d

Sleep(w) == IF w.exc = NoExc THEN [w EXCEPT !.asleep = TRUE] ELSE w

action_of(message) == dict_get(message.payload, "action", NoneStr)

RemoveFirst(s, x) ==
    LET k == CHOOSE j \in DOMAIN s : s[j] = x /\ \A h \in 1..(j - 1) : s[h] # x
    IN SubSeq(s, 1, k - 1) \o SubSeq(s, k + 1, Len(s))

\* trigger_optimization, were the network entry read under the fuel key
trigger_optimization_miskeyed(w, i) ==
    LET sid == context[i]
        sent == send_message(w, i, "optimizer", REQUEST,
                    [action |-> "optimize_route",
                     weather_data |-> ctx_get(w, sid, "weather_data", None),
                     fuel_data |-> ctx_get(w, sid, "fuel_data", None),
                     network_data |-> ctx_get(w, sid, "fuel_data", None)],
                    w.active_goals[sid].session_id)
    IN IF sent.exc # NoExc THEN sent
       ELSE ctx_set(sent, sid, "planning_status", "optimizing")

\* PlannerAgent.trigger_optimization
trigger_optimization(w, i) ==
    LET sid == context[i]
        sent == send_message(w, i, "optimizer", REQUEST,
                    [action |-> "optimize_route",
                     weather_data |-> ctx_get(w, sid, "weather_data", None),
                     fuel_data |-> ctx_get(w, sid, "fuel_data", None),
                     network_data |-> ctx_get(w, sid, "network_data", None)],
                    w.active_goals[sid].session_id)
    IN IF sent.exc # NoExc THEN sent
       ELSE ctx_set(sent, sid, "planning_status", "optimizing")

\* decompose_and_delegate, were the Requests to carry the identifier of the
\* bound context instead of the Command's session id
decompose_and_delegate_bound(w, i, payload) ==
    IF ~HasKey(payload, "goal") \/ ~HasKey(payload, "session_id")
    THEN Raise(w, "KeyError")
    ELSE LET session_id == context[i]
             w1 == send_message(w, i, "weather", REQUEST,
                       [action |-> "get_forecast", origin |-> "PTY",
                        destination |-> "BOG", time_range |-> "next_24_hours"],
                       session_id)
             w2 == send_message(w1, i, "fuel", REQUEST,
                       [action |-> "get_fuel_analysis", origin |-> "PTY",
                        destination |-> "BOG"],
                       session_id)
             w3 == send_message(w2, i, "network", REQUEST,
                       [action |-> "check_constraints", route |-> "PTY-BOG"],
                       session_id)
         IN IF w3.exc # NoExc \/ context[i] = NoSession THEN w3
            ELSE ctx_set(ctx_set(w3, context[i], "planning_status", "waiting_for_data"),
                         context[i], "pending_responses", <<"weather", "fuel", "network">>)

\* PlannerAgent.decompose_and_delegate
decompose_and_delegate(w, i, payload) ==
    IF ~HasKey(payload, "goal") \/ ~HasKey(payload, "session_id")
    THEN Raise(w, "KeyError")
    ELSE LET session_id == payload.session_id
             w1 == send_message(w, i, "weather", REQUEST,
                       [action |-> "get_forecast", origin |-> "PTY",
                        destination |-> "BOG", time_range |-> "next_24_hours"],
                       session_id)
             w2 == send_message(w1, i, "fuel", REQUEST,
                       [action |-> "get_fuel_analysis", origin |-> "PTY",
                        destination |-> "BOG"],
                       session_id)
             w3 == send_message(w2, i, "network", REQUEST,
                       [action |-> "check_constraints", route |-> "PTY-BOG"],
                       session_id)
         IN IF w3.exc # NoExc \/ context[i] = NoSession THEN w3
            ELSE ctx_set(ctx_set(w3, context[i], "planning_status", "waiting_for_data"),
                         context[i], "pending_responses", <<"weather", "fuel", "network">>)

\* PlannerAgent.handle_command
planner_handle_command(w, i, message) ==
    IF action_of(message) = "start_optimization"
    THEN decompose_and_delegate(w, i, message.payload)
    ELSE w

\* PlannerAgent.handle_response, were it to count Responses instead of senders
planner_handle_response_counting(w, i, message) ==
    IF context[i] = NoSession THEN w
    ELSE LET sid == context[i]
             pending == ctx_get(w, sid, "pending_responses", <<>>)
             found == pending # <<>>
             left == IF found THEN Tail(pending) ELSE pending
             w1 == IF found
                   THEN ctx_set(ctx_set(w, sid, "pending_responses", left),
                                sid, message.from_agent \o "_data", message.payload)
                   ELSE w
         IN IF Len(left) = 0
               /\ ctx_get(w1, sid, "planning_status", NoneStr) = "waiting_for_data"
            THEN trigger_optimization(w1, i)
            ELSE w1

\* PlannerAgent.handle_response, were it to advance on the first Response
planner_handle_response_eager(w, i, message) ==
    IF context[i] = NoSession THEN w
    ELSE LET sid == context[i]
             pending == ctx_get(w, sid, "pending_responses", <<>>)
             found == message.from_agent \in Range(pending)
             left == IF found THEN RemoveFirst(pending, message.from_agent) ELSE pending
             w1 == IF found
                   THEN ctx_set(ctx_set(w, sid, "pending_responses", left),
                                sid, message.from_agent \o "_data", message.payload)
                   ELSE w
         IN IF ctx_get(w1, sid, "planning_status", NoneStr) = "waiting_for_data"
            THEN trigger_optimization(w1, i)
            ELSE w1

\* PlannerAgent.handle_response, were it to test the pending list as it was
\* before the sender was removed
planner_handle_response_stale(w, i, message) ==
    IF context[i] = NoSession THEN w
    ELSE LET sid == context[i]
             pending == ctx_get(w, sid, "pending_responses", <<>>)
             found == message.from_agent \in Range(pending)
             left == IF found THEN RemoveFirst(pending, message.from_agent) ELSE pending
             w1 == IF found
                   THEN ctx_set(ctx_set(w, sid, "pending_responses", left),
                                sid, message.from_agent \o "_data", message.payload)
                   ELSE w
         IN IF Len(pending) = 0
               /\ ctx_get(w1, sid, "planning_status", NoneStr) = "waiting_for_data"
            THEN trigger_optimization(w1, i)
            ELSE w1

\* PlannerAgent.handle_response, were it to advance whenever nothing is
\* pending, whatever the status tag
planner_handle_response_retrigger(w, i, message) ==
    IF context[i] = NoSession THEN w
    ELSE LET sid == context[i]
             pending == ctx_get(w, sid, "pending_responses", <<>>)
             found == message.from_agent \in Range(pending)
             left == IF found THEN RemoveFirst(pending, message.from_agent) ELSE pending
             w1 == IF found
                   THEN ctx_set(ctx_set(w, sid, "pending_responses", left),
                                sid, message.from_agent \o "_data", message.payload)
                   ELSE w
         IN IF Len(left) = 0
            THEN trigger_optimization(w1, i)
            ELSE w1

\* PlannerAgent.handle_response, were it to store the payload of every
\* Response, pending or not
planner_handle_response_overwrite(w, i, message) ==
    IF context[i] = NoSession THEN w
    ELSE LET sid == context[i]
             pending == ctx_get(w, sid, "pending_responses", <<>>)
             found == message.from_agent \in Range(pending)
             left == IF found THEN RemoveFirst(pending, message.from_agent) ELSE pending
             w1 == ctx_set(IF found THEN ctx_set(w, sid, "pending_responses", left) ELSE w,
                           sid, message.from_agent \o "_data", message.payload)
         IN IF Len(left) = 0
               /\ ctx_get(w1, sid, "planning_status", NoneStr) = "waiting_for_data"
            THEN trigger_optimization(w1, i)
            ELSE w1

\* PlannerAgent.handle_response
planner_handle_response(w, i, message) ==
    IF context[i] = NoSession THEN w
    ELSE LET sid == context[i]
             pending == ctx_get(w, sid, "pending_responses", <<>>)
             found == message.from_agent \in Range(pending)
             left == IF found THEN RemoveFirst(pending, message.from_agent) ELSE pending
             w1 == IF found
                   THEN ctx_set(ctx_set(w, sid, "pending_responses", left),
                                sid, message.from_agent \o "_data", message.payload)
                   ELSE w
         IN IF Len(left) = 0
               /\ ctx_get(w1, sid, "planning_status", NoneStr) = "waiting_for_data"
            THEN trigger_optimization(w1, i)
            ELSE w1

\* WeatherAgent.handle_request, to the sleep of get_weather_forecast
weather_handle_request(w, i, message) ==
    IF action_of(message) = "get_forecast"
    THEN IF HasKey(message.payload, "origin") /\ HasKey(message.payload, "destination")
         THEN Sleep(w)
         ELSE Raise(w, "KeyError")
    ELSE w

\* WeatherAgent.get_weather_forecast after its sleep, and the reply
weather_resume(w, i, message) ==
    send_message(w, i, message.from_agent, RESPONSE,
        [origin_weather |-> [airport |-> message.payload.origin],
         destination_weather |-> [airport |-> message.payload.destination],
         route_weather |-> [confidence |-> 85],
         timestamp |-> Now(w)],
        message.correlation_id)

\* FuelAgent.handle_request, to the sleep of analyze_fuel_costs
fuel_handle_request(w, i, message) ==
    IF action_of(message) = "get_fuel_analysis"
    THEN IF HasKey(message.payload, "origin") /\ HasKey(message.payload, "destination")
         THEN Sleep(w)
         ELSE Raise(w, "KeyError")
    ELSE w

\* FuelAgent.analyze_fuel_costs after its sleep, and the reply
fuel_resume(w, i, message) ==
    send_message(w, i, message.from_agent, RESPONSE,
        [tankering_savings |-> 450, confidence |-> 92, timestamp |-> Now(w)],
        message.correlation_id)

\* NetworkAgent.handle_request, to the sleep of check_network_constraints
network_handle_request(w, i, message) ==
    IF action_of(message) = "check_constraints"
    THEN IF HasKey(message.payload, "route") THEN Sleep(w) ELSE Raise(w, "KeyError")
    ELSE w

\* NetworkAgent.check_network_constraints after its sleep, and the reply
network_resume(w, i, message) ==
    send_message(w, i, message.from_agent, RESPONSE,
        [network_impact |-> "minimal", timestamp |-> Now(w)],
        message.correlation_id)

\* OptimizerAgent.handle_request, to the sleep of optimize_route
optimizer_handle_request(w, i, message) ==
    IF action_of(message) = "optimize_route"
    THEN LET weather_data == dict_get(message.payload, "weather_data", None)
             fuel_data == dict_get(message.payload, "fuel_data", None)
             network_data == dict_get(message.payload, "network_data", None)
         IN IF weather_data = None THEN Raise(w, "TypeError")
            ELSE IF ~HasKey(weather_data, "route_weather") THEN Raise(w, "KeyError")
            ELSE IF ~HasKey(weather_data.route_weather, "confidence") THEN Raise(w, "KeyError")
            ELSE IF fuel_data = None THEN Raise(w, "TypeError")
            ELSE IF ~HasKey(fuel_data, "tankering_savings") THEN Raise(w, "KeyError")
            ELSE IF network_data = None THEN Raise(w, "TypeError")
            ELSE IF ~HasKey(network_data, "network_impact") THEN Raise(w, "KeyError")
            ELSE Sleep(w)
    ELSE w

\* The end of OptimizerAgent.handle_request, were the event not broadcast
optimizer_resume_quiet(w, i, message) ==
    LET res == [recommended_altitude |-> 39000, route |-> "PTY-BOG",
                confidence |-> 89, requires_approval |-> FALSE,
                timestamp |-> Now(w)]
    IN send_message(w, i, message.from_agent, RESPONSE, res, message.correlation_id)

\* OptimizerAgent.optimize_route after its sleep, the reply and the event
optimizer_resume(w, i, message) ==
    LET res == [recommended_altitude |-> 39000, route |-> "PTY-BOG",
                confidence |-> 89, requires_approval |-> FALSE,
                timestamp |-> Now(w)]
        replied == send_message(w, i, message.from_agent, RESPONSE, res,
                                message.correlation_id)
    IN broadcast_event(replied, i, "optimization_complete", res)

\* CriticAgent.handle_event, were it to mark the session as complete too
critic_handle_event_tagging(w, i, message) ==
    IF dict_get(message.payload, "event", NoneStr) = "optimization_complete"
    THEN IF ~HasKey(message.payload, "data") THEN Raise(w, "KeyError")
         ELSE IF context[i] # NoSession
         THEN ctx_set(ctx_set(w, context[i], "last_prediction", message.payload.data),
                      context[i], "planning_status", "complete")
         ELSE w
    ELSE w

\* CriticAgent.handle_event
critic_handle_event(w, i, message) ==
    IF dict_get(message.payload, "event", NoneStr) = "optimization_complete"
    THEN IF ~HasKey(message.payload, "data") THEN Raise(w, "KeyError")
         ELSE IF context[i] # NoSession
         THEN ctx_set(w, context[i], "last_prediction", message.payload.data)
         ELSE w
    ELSE w

\* The dispatch of process_messages: the handler of the agent's class for the
\* message's type, or the no-op BaseAgent declares.
dispatch(w, i, message) ==
    LET c == agent_class(i)
    IN CASE message.type = REQUEST /\ c = "weather" -> weather_handle_request(w, i, message)
         [] message.type = REQUEST /\ c = "fuel" -> fuel_handle_request(w, i, message)
         [] message.type = REQUEST /\ c = "network" -> network_handle_request(w, i, message)
         [] message.type = REQUEST /\ c = "optimizer" -> optimizer_handle_request(w, i, message)
         [] message.type = RESPONSE /\ c = "planner" -> planner_handle_response(w, i, message)
         [] message.type = COMMAND /\ c = "planner" -> planner_handle_command(w, i, message)
         [] message.type = EVENT /\ c = "critic" -> critic_handle_event(w, i, message)
         [] OTHER -> w

\* The rest of a handler that slept.
resume_handler(w, i, message) ==
    LET c == agent_class(i)
    IN CASE c = "weather" -> weather_resume(w, i, message)
         [] c = "fuel" -> fuel_resume(w, i, message)
         [] c = "network" -> network_resume(w, i, message)
         [] c = "optimizer" -> optimizer_resume(w, i, message)
         [] OTHER -> w

sleep_time(i) ==
    LET c == agent_class(i)
    IN CASE c = "weather" -> WeatherSleep
         [] c = "fuel" -> FuelSleep
         [] c = "network" -> NetworkSleep
         [] c = "optimizer" -> OptimizerSleep
         [] OTHER -> 0

(***************************************************************************)
(* BaseAgent.process_messages                                              *)
(***************************************************************************)
NoResult == [call |-> "none", exc |-> NoExc]

\* lines 149-153: the handler returned
track_performance(i, elapsed) ==
    /\ total_time' = [total_time EXCEPT ![i] = @ + elapsed]
    /\ tasks_completed' = [tasks_completed EXCEPT ![i] = @ + 1]
    /\ status' = [status EXCEPT ![i] = IDLE]
    /\ pc' = [pc EXCEPT ![i] = "get"]
    /\ current' = [current EXCEPT ![i] = <<>>]
    /\ UNCHANGED <<tasks_failed, raised>>

\* The except clause, were the exception to leave the loop
except_clause_propagate(i, id) ==
    /\ status' = [status EXCEPT ![i] = ERROR]
    /\ pc' = [pc EXCEPT ![i] = "stopped"]
    /\ current' = [current EXCEPT ![i] = <<>>]
    /\ raised' = [raised EXCEPT ![i] = @ \cup {id}]
    /\ UNCHANGED <<tasks_completed, tasks_failed, total_time>>

\* The except clause, were the failure not counted
except_clause_uncounted(i, id) ==
    /\ status' = [status EXCEPT ![i] = ERROR]
    /\ pc' = [pc EXCEPT ![i] = "get"]
    /\ current' = [current EXCEPT ![i] = <<>>]
    /\ raised' = [raised EXCEPT ![i] = @ \cup {id}]
    /\ UNCHANGED <<tasks_completed, tasks_failed, total_time>>

\* lines 155-158: the handler raised; handle_error prints and the loop goes on
except_clause(i, id) ==
    /\ status' = [status EXCEPT ![i] = ERROR]
    /\ tasks_failed' = [tasks_failed EXCEPT ![i] = @ + 1]
    /\ pc' = [pc EXCEPT ![i] = "get"]
    /\ current' = [current EXCEPT ![i] = <<>>]
    /\ raised' = [raised EXCEPT ![i] = @ \cup {id}]
    /\ UNCHANGED <<tasks_completed, total_time>>

\* line 136, and the handler waiting in its sleep
suspend(i, id) ==
    /\ status' = [status EXCEPT ![i] = WORKING]
    /\ pc' = [pc EXCEPT ![i] = "sleep"]
    /\ current' = [current EXCEPT ![i] = <<id>>]
    /\ UNCHANGED <<tasks_completed, tasks_failed, total_time, raised>>

\* The guard of get(), were each message handled in a task of its own
may_get_concurrently(i) == pc[i] \in {"get", "sleep"}

\* The loop takes a message only where it stands at get().
may_get(i) == pc[i] = "get"

\* One turn of the loop, from get() to the handler's end or sleep.
process_messages(i) ==
    /\ may_get(i)
    /\ message_queue[i] # <<>>
    /\ LET id == Head(message_queue[i])
           w == dispatch([World EXCEPT !.message_queue[i] = Tail(@)], i, message_log[id])
       IN /\ Commit(w)
          /\ dispatched' = [dispatched EXCEPT ![i] = @ \cup {id}]
          /\ IF w.exc # NoExc THEN except_clause(i, id)
             ELSE IF w.asleep THEN suspend(i, id)
             ELSE track_performance(i, 0)
    /\ result' = NoResult
    /\ UNCHANGED <<agents, context, message_bus, registered, starts, external>>

\* The rest of the turn of a handler that slept.
resume(i) ==
    /\ pc[i] = "sleep"
    /\ LET id == current[i][1]
           w == resume_handler(World, i, message_log[id])
       IN /\ Commit(w)
          /\ IF w.exc # NoExc THEN except_clause(i, id)
             ELSE track_performance(i, sleep_time(i))
    /\ result' = NoResult
    /\ UNCHANGED <<agents, context, message_bus, dispatched, registered, starts, external>>

\* The loop's task is cancelled (route_agents.py:524-525).  CancelledError
\* is raised where the loop waits, at get() or in the handler's sleep; it is
\* no Exception, so the except clause does not take it and the loop ends:
\* the counters and the status stay as they are and the inbox is abandoned.
cancel(i) ==
    /\ pc[i] \in {"get", "sleep"}
    /\ pc' = [pc EXCEPT ![i] = "stopped"]
    /\ current' = [current EXCEPT ![i] = <<>>]
    /\ result' = [call |-> "cancel", exc |-> NoExc]
    /\ UNCHANGED <<agents, message_log, route_calls, active_goals, message_queue,
                   context, message_bus, registered, starts, external>>
    /\ UNCHANGED <<status, tasks_completed, tasks_failed, total_time, dispatched, raised>>

\* BaseAgent.get_stats; a quotient is the pair <<numerator, denominator>>.
get_stats(i) ==
    [agent_id |-> agent_id(i),
     status |-> status[i],
     tasks_completed |-> tasks_completed[i],
     tasks_failed |-> tasks_failed[i],
     avg_time_per_task |-> <<total_time[i], Max(tasks_completed[i], 1)>>,
     success_rate |-> <<tasks_completed[i], Max(tasks_completed[i] + tasks_failed[i], 1)>>]

\* The value of the quotient q is the number v.
QuotientIs(q, v) == q[1] = v * q[2]

(***************************************************************************)
(* MessageBus.register_agent                                               *)
(***************************************************************************)
\* The registration, were the first instance of an identifier kept
registry_insert_first(registry, i) ==
    IF agent_id(i) \in DOMAIN registry THEN registry ELSE dict_set(registry, agent_id(i), i)

\* line 206: self.agents[agent.agent_id] = agent
registry_insert(registry, i) == dict_set(registry, agent_id(i), i)

register_agent(i) ==
    /\ agents' = registry_insert(agents, i)
    /\ message_bus' = [message_bus EXCEPT ![i] = TRUE]
    /\ registered' = dict_set(registered, agent_id(i), i)
    /\ result' = [call |-> "register_agent", exc |-> NoExc]
    /\ UNCHANGED <<message_log, route_calls, active_goals, message_queue, context, starts, external>>
    /\ UNCHANGED agent_vars

\* A call of MessageBus.get_message_history
get_history(limit) ==
    /\ result' = [call |-> "get_message_history", exc |-> NoExc, limit |-> limit,
                  value |-> get_message_history(message_log, limit)]
    /\ UNCHANGED <<agents, message_log, route_calls, active_goals, message_queue, context,
                   message_bus, registered, starts, external>>
    /\ UNCHANGED agent_vars

(***************************************************************************)
(* Orchestrator                                                            *)
(***************************************************************************)
\* The text of the k-th goal that is set: the texts differ.
GoalText(k) == <<"goal", k>>

\* set_goal, were an agent that has a context left with it
set_goal_keeping(goal, initial_data) ==
    LET session_id == Cardinality(DOMAIN active_goals) + 1
        data == IF initial_data = None THEN EmptyDict ELSE initial_data
    IN /\ session_id <= MaxSessions
       /\ active_goals' = dict_set(active_goals, session_id,
                                   AgentContext(session_id, goal, data))
       /\ context' = [i \in Instances |->
                         IF i \in Range(agents) /\ context[i] = NoSession
                         THEN session_id ELSE context[i]]
       /\ result' = [call |-> "set_goal", exc |-> NoExc, value |-> session_id]
       /\ UNCHANGED <<agents, message_log, route_calls, message_queue, message_bus, registered,
                      starts, external>>
       /\ UNCHANGED agent_vars

set_goal(goal, initial_data) ==
    LET session_id == Cardinality(DOMAIN active_goals) + 1       \* uuid4(): fresh
        data == IF initial_data = None THEN EmptyDict ELSE initial_data
    IN /\ session_id <= MaxSessions
       /\ active_goals' = dict_set(active_goals, session_id,
                                   AgentContext(session_id, goal, data))
       /\ context' = [i \in Instances |->
                         IF i \in Range(agents) THEN session_id ELSE context[i]]
       /\ result' = [call |-> "set_goal", exc |-> NoExc, value |-> session_id]
       /\ UNCHANGED <<agents, message_log, route_calls, message_queue, message_bus, registered,
                      starts, external>>
       /\ UNCHANGED agent_vars

\* start_optimization, were an unknown session passed over in silence
start_optimization_lenient(session_id) ==
    /\ IF session_id \notin DOMAIN active_goals
       THEN /\ result' = [call |-> "start_optimization", exc |-> NoExc,
                          session_id |-> session_id]
            /\ UNCHANGED <<message_log, route_calls, message_queue, active_goals, starts>>
       ELSE /\ Commit(send(World,
                   AgentMessage(message_log, "orchestrator", "planner", COMMAND,
                       [action |-> "start_optimization", session_id |-> session_id,
                        goal |-> active_goals[session_id].goal],
                       NoSession)))
            /\ starts' = starts + 1
            /\ result' = [call |-> "start_optimization", exc |-> NoExc,
                          session_id |-> session_id]
    /\ UNCHANGED <<agents, context, message_bus, registered, external>>
    /\ UNCHANGED agent_vars

start_optimization(session_id) ==
    /\ IF session_id \notin DOMAIN active_goals
       THEN /\ result' = [call |-> "start_optimization", exc |-> "ValueError",
                          session_id |-> session_id]
            /\ UNCHANGED <<message_log, route_calls, message_queue, active_goals, starts>>
       ELSE /\ Commit(send(World,
                   AgentMessage(message_log, "orchestrator", "planner", COMMAND,
                       [action |-> "start_optimization", session_id |-> session_id,
                        goal |-> active_goals[session_id].goal],
                       NoSession)))
            /\ starts' = starts + 1
            /\ result' = [call |-> "start_optimization", exc |-> NoExc,
                          session_id |-> session_id]
    /\ UNCHANGED <<agents, context, message_bus, registered, external>>
    /\ UNCHANGED agent_vars

\* MessageBus.get_system_stats; the list of the agents' stats is keyed here
\* by the identifier.
get_system_stats ==
    [total_agents |-> Cardinality(DOMAIN agents),
     agents |-> [a \in DOMAIN agents |-> get_stats(agents[a])],
     total_messages |-> Len(message_log)]

\* get_progress, were it to open a session for an identifier it does not know
get_progress_creating(session_id) ==
    /\ result' = [call |-> "get_progress", exc |-> NoExc, session_id |-> session_id,
                  value |-> IF session_id \notin DOMAIN active_goals
                            THEN [error |-> "Unknown session"]
                            ELSE [session_id |-> session_id,
                                  goal |-> active_goals[session_id].goal,
                                  data |-> active_goals[session_id].data,
                                  system_stats |-> get_system_stats]]
    /\ active_goals' = IF session_id \in DOMAIN active_goals THEN active_goals
                       ELSE dict_set(active_goals, session_id,
                                     AgentContext(session_id, NoneStr, EmptyDict))
    /\ UNCHANGED <<agents, message_log, route_calls, message_queue, context,
                   message_bus, registered, starts, external>>
    /\ UNCHANGED agent_vars

\* Orchestrator.get_progress
get_progress(session_id) ==
    /\ result' = [call |-> "get_progress", exc |-> NoExc, session_id |-> session_id,
                  value |-> IF session_id \notin DOMAIN active_goals
                            THEN [error |-> "Unknown session"]
                            ELSE [session_id |-> session_id,
                                  goal |-> active_goals[session_id].goal,
                                  data |-> active_goals[session_id].data,
                                  system_stats |-> get_system_stats]]
    /\ UNCHANGED <<agents, message_log, route_calls, active_goals, message_queue, context,
                   message_bus, registered, starts, external>>
    /\ UNCHANGED agent_vars

(***************************************************************************)
(* A send_message or broadcast_event call made on an agent from outside    *)
(* its handlers.                                                           *)
(***************************************************************************)
external_send(i, to, type, payload, corr) ==
    /\ LET w == send_message(World, i, to, type, payload, corr)
       IN /\ Commit(w)
          /\ result' = [call |-> "send_message", exc |-> w.exc, from |-> i, to |-> to]
    /\ external' = external + 1
    /\ UNCHANGED <<agents, context, message_bus, registered, starts>>
    /\ UNCHANGED agent_vars

external_broadcast(i, event_type, data) ==
    /\ LET w == broadcast_event(World, i, event_type, data)
       IN /\ Commit(w)
          /\ result' = [call |-> "broadcast_event", exc |-> w.exc, from |-> i,
                        to |-> "broadcast"]
    /\ external' = external + 1
    /\ UNCHANGED <<agents, context, message_bus, registered, starts>>
    /\ UNCHANGED agent_vars

(***************************************************************************)
(* The workflow.  Init is demo_agentic_system after its steps 1 to 4       *)
(* (route_agents.py:445-469): the six agents registered, their loops at    *)
(* get().  Then goals are set and optimizations started in any order while *)
(* the agents run.                                                         *)
(***************************************************************************)
Responders == {"weather", "fuel", "network"}

ResponsePayload(i) ==
    CASE i = "weather" -> [route_weather |-> [confidence |-> 85], timestamp |-> Len(message_log)]
      [] i = "fuel" -> [tankering_savings |-> 450, confidence |-> 92, timestamp |-> Len(message_log)]
      [] i = "network" -> [network_impact |-> "minimal", timestamp |-> Len(message_log)]

repeat_response(i) ==
    /\ external < MaxExternal
    /\ context[i] # NoSession
    /\ external_send(i, "planner", RESPONSE, ResponsePayload(i), context[i])

Init ==
    /\ agents = [a \in DemoInstances |-> a]
    /\ registered = [a \in DemoInstances |-> a]
    /\ message_log = <<>>
    /\ route_calls = 0
    /\ active_goals = EmptyDict
    /\ status = [i \in Instances |-> IDLE]
    /\ message_queue = [i \in Instances |-> <<>>]
    /\ context = [i \in Instances |-> NoSession]
    /\ message_bus = [i \in Instances |-> i \in DemoInstances]
    /\ tasks_completed = [i \in Instances |-> 0]
    /\ tasks_failed = [i \in Instances |-> 0]
    /\ total_time = [i \in Instances |-> 0]
    /\ pc = [i \in Instances |-> "get"]
    /\ current = [i \in Instances |-> <<>>]
    /\ dispatched = [i \in Instances |-> {}]
    /\ raised = [i \in Instances |-> {}]
    /\ starts = 0
    /\ external = 0
    /\ result = NoResult

Next ==
    \/ set_goal(GoalText(Cardinality(DOMAIN active_goals) + 1), None)
    \/ \E session_id \in 1..MaxSessions :
           /\ starts < MaxStarts \/ session_id \notin DOMAIN active_goals
           /\ start_optimization(session_id)
    \/ \E i \in DemoInstances : process_messages(i)
    \/ \E i \in DemoInstances : resume(i)

Spec == Init /\ [][Next]_vars

(***************************************************************************)
(* The workflow with a caller that asks for the progress of a session, a   *)
(* known or an unknown one, at any moment.                                 *)
(***************************************************************************)
NextProgress ==
    \/ Next
    \/ \E session_id \in 1..MaxSessions : get_progress(session_id)

SpecProgress == Init /\ [][NextProgress]_vars

(***************************************************************************)
(* One scatter/gather: one goal is set and one optimization started, the   *)
(* six agents run, and the responders repeat Responses at any moment.      *)
(***************************************************************************)
NextGather ==
    \/ /\ active_goals = EmptyDict
       /\ set_goal(GoalText(1), None)
    \/ /\ starts = 0
       /\ \E session_id \in DOMAIN active_goals : start_optimization(session_id)
    \/ \E i \in DemoInstances : process_messages(i)
    \/ \E i \in DemoInstances : resume(i)
    \/ \E i \in Responders : repeat_response(i)

SpecGather == Init /\ [][NextGather]_vars

(***************************************************************************)
(* The demo run with its scheduling: the six agents registered, one goal   *)
(* set and one optimization started.  Every loop is a task of the event    *)
(* loop (route_agents.py:469), which runs every task that is ready: a loop *)
(* whose inbox holds a message gets to take it, and a sleep ends.          *)
(***************************************************************************)
NextLive ==
    \/ /\ active_goals = EmptyDict
       /\ set_goal(GoalText(1), None)
    \/ /\ starts = 0
       /\ \E session_id \in DOMAIN active_goals : start_optimization(session_id)
    \/ \E i \in DemoInstances : process_messages(i)
    \/ \E i \in DemoInstances : resume(i)

Fairness ==
    \A i \in DemoInstances :
        /\ WF_vars(process_messages(i))
        /\ WF_vars(resume(i))

SpecLive == Init /\ [][NextLive]_vars /\ Fairness

(***************************************************************************)
(* One session whose optimization is started more than once.               *)
(***************************************************************************)
NextRestart ==
    \/ /\ active_goals = EmptyDict
       /\ set_goal(GoalText(1), None)
    \/ /\ starts < MaxRestarts
       /\ \E session_id \in DOMAIN active_goals : start_optimization(session_id)
    \/ \E i \in DemoInstances : process_messages(i)
    \/ \E i \in DemoInstances : resume(i)

SpecRestart == Init /\ [][NextRestart]_vars

(***************************************************************************)
(* One scatter/gather in which, besides the responders repeating their     *)
(* Responses, an agent that is no responder sends the planner a Response.  *)
(***************************************************************************)
Outsiders == {"critic"}

outsider_response(i) ==
    /\ external < MaxExternal
    /\ context[i] # NoSession
    /\ external_send(i, "planner", RESPONSE, [note |-> "unsolicited"], context[i])

NextDuplicate ==
    \/ NextGather
    \/ \E i \in Outsiders : outsider_response(i)

SpecDuplicate == Init /\ [][NextDuplicate]_vars

(***************************************************************************)
(* One scatter/gather in a system where any of the three responders may be *)
(* missing from the registry, so that the Request to it is dropped.        *)
(***************************************************************************)
InitStall ==
    /\ \E missing \in SUBSET Responders :
          /\ agents = [a \in DemoInstances \ missing |-> a]
          /\ registered = [a \in DemoInstances \ missing |-> a]
          /\ message_bus = [i \in Instances |-> i \in DemoInstances \ missing]
    /\ message_log = <<>>
    /\ route_calls = 0
    /\ active_goals = EmptyDict
    /\ status = [i \in Instances |-> IDLE]
    /\ message_queue = [i \in Instances |-> <<>>]
    /\ context = [i \in Instances |-> NoSession]
    /\ tasks_completed = [i \in Instances |-> 0]
    /\ tasks_failed = [i \in Instances |-> 0]
    /\ total_time = [i \in Instances |-> 0]
    /\ pc = [i \in Instances |-> "get"]
    /\ current = [i \in Instances |-> <<>>]
    /\ dispatched = [i \in Instances |-> {}]
    /\ raised = [i \in Instances |-> {}]
    /\ starts = 0
    /\ external = 0
    /\ result = NoResult

NextStall ==
    \/ /\ active_goals = EmptyDict
       /\ set_goal(GoalText(1), None)
    \/ /\ starts = 0
       /\ \E session_id \in DOMAIN active_goals : start_optimization(session_id)
    \/ \E i \in DemoInstances : process_messages(i)
    \/ \E i \in DemoInstances : resume(i)

SpecStall == InitStall /\ [][NextStall]_vars

(***************************************************************************)
(* The bare bus: nothing is registered at first; agents are registered,    *)
(* also a second instance under a registered identifier, messages are sent *)
(* on the agents from outside, to registered and to unknown identifiers    *)
(* and to all, the loops run, and the log is read.                         *)
(***************************************************************************)
BusInstances == {"weather", "weather_b", "fuel", "critic"}

GoodForecast == [action |-> "get_forecast", origin |-> "PTY", destination |-> "BOG"]

\* A request WeatherAgent.handle_request raises KeyError on (line 150).
BadForecast == [action |-> "get_forecast"]

\* The calls made: <<the agent called on, to_agent, payload>>
BusSends ==
    {<<"critic", "weather", GoodForecast>>,
     <<"critic", "weather", BadForecast>>,
     <<"fuel", "weather", GoodForecast>>,
     <<"critic", "nobody", GoodForecast>>}

BusBroadcasters == {"critic", "weather"}

InitBus ==
    /\ agents = EmptyDict
    /\ registered = EmptyDict
    /\ message_log = <<>>
    /\ route_calls = 0
    /\ active_goals = EmptyDict
    /\ status = [i \in Instances |-> IDLE]
    /\ message_queue = [i \in Instances |-> <<>>]
    /\ context = [i \in Instances |-> NoSession]
    /\ message_bus = [i \in Instances |-> FALSE]
    /\ tasks_completed = [i \in Instances |-> 0]
    /\ tasks_failed = [i \in Instances |-> 0]
    /\ total_time = [i \in Instances |-> 0]
    /\ pc = [i \in Instances |-> "get"]
    /\ current = [i \in Instances |-> <<>>]
    /\ dispatched = [i \in Instances |-> {}]
    /\ raised = [i \in Instances |-> {}]
    /\ starts = 0
    /\ external = 0
    /\ result = NoResult

NextBus ==
    \/ \E i \in BusInstances : register_agent(i)
    \/ \E s \in BusSends :
           /\ external < MaxSends
           /\ message_bus[s[1]]
           /\ external_send(s[1], s[2], REQUEST, s[3], NoSession)
    \/ \E i \in BusBroadcasters :
           /\ external < MaxSends
           /\ message_bus[i]
           /\ external_broadcast(i, "alert", EmptyDict)
    \/ \E i \in BusInstances : process_messages(i)
    \/ \E i \in BusInstances : resume(i)

SpecBus == InitBus /\ [][NextBus]_vars

(***************************************************************************)
(* Registration and goals: nothing is registered at first; agents are      *)
(* registered, also a second instance under a registered identifier, and   *)
(* goals are set, in any order.                                            *)
(***************************************************************************)
NextBind ==
    \/ \E i \in BusInstances : register_agent(i)
    \/ set_goal(GoalText(Cardinality(DOMAIN active_goals) + 1), None)

SpecBind == InitBus /\ [][NextBind]_vars

(***************************************************************************)
(* The bare bus with callers that send on any agent, registered or not.    *)
(***************************************************************************)
NextUnbound ==
    \/ \E i \in BusInstances : register_agent(i)
    \/ \E s \in BusSends :
           /\ external < MaxSends
           /\ external_send(s[1], s[2], REQUEST, s[3], NoSession)
    \/ \E i \in BusBroadcasters :
           /\ external < MaxSends
           /\ external_broadcast(i, "alert", EmptyDict)
    \/ \E i \in BusInstances : process_messages(i)
    \/ \E i \in BusInstances : resume(i)

SpecUnbound == InitBus /\ [][NextUnbound]_vars

(***************************************************************************)
(* The bare bus with loops that are cancelled at any moment.               *)
(***************************************************************************)
\* The loop that is cancelled, at get() or in its handler's sleep.
CancelInstances == {"weather"}

NextCancel ==
    \/ NextBus
    \/ \E i \in CancelInstances : cancel(i)

SpecCancel == InitBus /\ [][NextCancel]_vars

(***************************************************************************)
(* The bare bus with a reader of its log.                                  *)
(***************************************************************************)
NextLog ==
    \/ NextBus
    \/ \E limit \in 0..MaxLimit : get_history(limit)

SpecLog == InitBus /\ [][NextLog]_vars

(***************************************************************************)
(* Properties                                                              *)
(***************************************************************************)
IsMessage(k, from, to, type) ==
    /\ message_log[k].from_agent = from
    /\ message_log[k].to_agent = to
    /\ message_log[k].type = type

\* The consolidated Requests the planner has sent to the optimizer.
Consolidated == {k \in DOMAIN message_log : IsMessage(k, "planner", "optimizer", REQUEST)}

\* The Commands the loop of i has processed.
CommandsProcessed(i) == {k \in dispatched[i] : message_log[k].type = COMMAND}

\* The senders of the Responses the loop of i has processed after message c.
\* The inbox is first in first out, so they are those routed after c.
RespondedAfter(i, c) ==
    {message_log[k].from_agent :
        k \in {j \in dispatched[i] : j > c /\ message_log[j].type = RESPONSE}}

\* C1: with one goal set and one start Command, whatever the order of the
\* Responses and however often a responder repeats one, the planner has sent
\* no consolidated Request before it processed the Command, never more than
\* one, and it has sent one exactly when it has processed, after the
\* Command, a Response of each of weather, fuel and network.
C1_ScatterGatherOnce ==
    /\ CommandsProcessed("planner") = {} => Consolidated = {}
    /\ \A c \in CommandsProcessed("planner") :
          /\ Cardinality(Consolidated) <= 1
          /\ Consolidated # {} <=> Responders \subseteq RespondedAfter("planner", c)

\* C1's case: the join fired once although one responder's Response was
\* processed twice before it fired.
C1_Witness ==
    /\ Cardinality(Consolidated) = 1
    /\ \E c \in CommandsProcessed("planner") :
       \E k1, k2 \in dispatched["planner"], o \in Consolidated :
          /\ c < k1 /\ k1 < k2 /\ k2 < o
          /\ message_log[k1].type = RESPONSE /\ message_log[k2].type = RESPONSE
          /\ message_log[k1].from_agent = message_log[k2].from_agent
          /\ message_log[k1].from_agent \in Responders

\* The start Commands routed, the first Request of each fan-out, and the
\* number of fan-outs begun when message k was routed.
StartCommands == {k \in DOMAIN message_log : IsMessage(k, "orchestrator", "planner", COMMAND)}

FanoutHeads == {k \in DOMAIN message_log : IsMessage(k, "planner", "weather", REQUEST)}

FanoutsBegun(k) == Cardinality({f \in FanoutHeads : f <= k})

\* The session of the n-th start Command: the planner takes the Commands in
\* the order they were routed, so its n-th fan-out is for that session.
SessionOfStart(n) ==
    LET c == CHOOSE d \in StartCommands : Cardinality({e \in StartCommands : e <= d}) = n
    IN message_log[c].payload.session_id

\* C2: every Request the planner sends, the three of a fan-out and the
\* consolidated one that joins it, carries as correlation id the session id
\* of the start Command the fan-out was made for.
C2_CorrelationPreserved ==
    \A k \in DOMAIN message_log :
        (message_log[k].from_agent = "planner" /\ message_log[k].type = REQUEST)
        => /\ FanoutsBegun(k) >= 1
           /\ message_log[k].correlation_id = SessionOfStart(FanoutsBegun(k))

\* C7: an agent that has completed and failed no task reports an average
\* handling time of 0 and a success rate of 1.
C7_StatsFloor ==
    \A i \in Instances :
        (tasks_completed[i] = 0 /\ tasks_failed[i] = 0)
        => /\ QuotientIs(get_stats(i).avg_time_per_task, 0)
           /\ QuotientIs(get_stats(i).success_rate, 1)

\* The messages routed by the step, and how often an inbox holds a message.
NewIds == (Len(message_log) + 1)..Len(message_log')

Count(queue, id) == Cardinality({p \in DOMAIN queue : queue[p] = id})

Holds(i) == Range(message_queue[i]) \cup dispatched[i]

\* C3: a step in which the handler of a dequeued message raises adds one to
\* the agent's failed-task count, leaves the loop at get() and leaves the
\* messages queued behind the failing one in the inbox; no other step changes
\* the failed-task count; and no loop ever stops.
C3_ErrorIsolation ==
    [][\A i \in Instances :
          /\ pc'[i] # "stopped"
          /\ IF raised'[i] # raised[i]
             THEN /\ Cardinality(raised'[i]) = Cardinality(raised[i]) + 1
                  /\ tasks_failed'[i] = tasks_failed[i] + 1
                  /\ tasks_completed'[i] = tasks_completed[i]
                  /\ pc'[i] = "get"
                  /\ LET behind == IF pc[i] = "sleep" THEN message_queue[i]
                                   ELSE Tail(message_queue[i])
                     IN /\ Len(message_queue'[i]) >= Len(behind)
                        /\ SubSeq(message_queue'[i], 1, Len(behind)) = behind
             ELSE tasks_failed'[i] = tasks_failed[i]]_vars

\* C3's case: a message queued behind one whose handler raised has been
\* dispatched and completed, and the failure was counted once.
C3_Witness ==
    \E i \in Instances : \E k1 \in raised[i] : \E k2 \in dispatched[i] \ raised[i] :
        /\ k1 < k2
        /\ tasks_failed[i] = 1
        /\ tasks_completed[i] = 1
        /\ pc[i] = "get"

\* C4: the message a loop dequeues is the one routed first among the messages
\* of its sender in the inbox, and a message leaves an inbox only by being
\* dequeued; so of two messages one sender routes to one recipient, the one
\* routed first is dispatched first.
C4_FifoPerPair ==
    [][\A b \in Instances :
          /\ \A k \in dispatched'[b] \ dispatched[b] :
                \A j \in Range(message_queue[b]) :
                    message_log[j].from_agent = message_log[k].from_agent => k <= j
          /\ Range(message_queue[b]) \ (dispatched'[b] \ dispatched[b])
                 \subseteq Range(message_queue'[b])]_vars

\* C4's case: an agent has dispatched two messages of one sender, and a
\* message of another sender was routed between them.
C4_Witness ==
    \E b \in Instances : \E k1, k2 \in dispatched[b] : \E j \in DOMAIN message_log :
        /\ k1 < j /\ j < k2
        /\ message_log[k1].from_agent = message_log[k2].from_agent
        /\ message_log[j].from_agent # message_log[k1].from_agent

\* C5: a step that routes a broadcast message puts it once in the inbox of
\* every registered agent whose identifier is not the sender's, and in no
\* other inbox.
C5_BroadcastExclusion ==
    [][\A k \in NewIds :
          message_log'[k].to_agent = "broadcast"
          => \A i \in Instances :
                Count(message_queue'[i], k) =
                    IF i \in Range(agents) /\ agent_id(i) # message_log'[k].from_agent
                    THEN 1 ELSE 0]_vars

\* C5's case: a registered agent has broadcast, and two other agents have
\* the message.
C5_Witness ==
    \E k \in DOMAIN message_log :
        /\ message_log[k].to_agent = "broadcast"
        /\ message_log[k].from_agent \in DOMAIN agents
        /\ Cardinality({i \in Instances : k \in Holds(i)}) >= 2
        /\ \A i \in Instances : agent_id(i) = message_log[k].from_agent => k \notin Holds(i)

\* The messages an agent has dequeued and not finished handling.
InHandler(i) == Cardinality(dispatched[i]) - tasks_completed[i] - tasks_failed[i]

\* C6: an agent has at most one message dequeued and not finished, and it
\* has one exactly while its status is working.
C6_Sequential ==
    \A i \in Instances :
        /\ InHandler(i) \in {0, 1}
        /\ InHandler(i) = 1 <=> status[i] = WORKING

\* C6's case: a handler is suspended while the next message waits in the
\* inbox, and another agent has finished a message meanwhile.
C6_Witness ==
    \E i \in Instances :
        /\ pc[i] = "sleep"
        /\ message_queue[i] # <<>>
        /\ \E j \in Instances \ {i} : \E k \in dispatched[j] : k > current[i][1]

\* C8: a call of history(limit) returns min(limit, n) entries, the last ones
\* of the log in the order they were routed, and leaves the log as it was.
C8_HistoryMostRecent ==
    [][result'.call = "get_message_history"
       => LET n == Len(message_log)
              c == Min(result'.limit, n)
          IN /\ Len(result'.value) = c
             /\ \A p \in 1..c : result'.value[p].id = message_log[n - c + p].id
             /\ message_log' = message_log]_vars

\* C9: a send_message call to an identifier that is neither registered nor
\* the broadcast sentinel raises nothing, appends the message to the log and
\* changes no inbox.
C9_UnknownRecipientDrop ==
    [][(/\ result'.call = "send_message"
        /\ message_bus[result'.from]
        /\ result'.to # "broadcast"
        /\ result'.to \notin DOMAIN agents)
       => /\ result'.exc = NoExc
          /\ Len(message_log') = Len(message_log) + 1
          /\ SubSeq(message_log', 1, Len(message_log)) = message_log
          /\ message_log'[Len(message_log')].to_agent = result'.to
          /\ message_log'[Len(message_log')].from_agent = agent_id(result'.from)
          /\ message_queue' = message_queue]_vars

\* C9's case: an agent sent to an unknown identifier, and a message it sent
\* afterwards was delivered.
C9_Witness ==
    \E k1, k2 \in DOMAIN message_log :
        /\ k1 < k2
        /\ message_log[k1].to_agent = "nobody"
        /\ message_log[k2].from_agent = message_log[k1].from_agent
        /\ \A i \in Instances : k1 \notin Holds(i)
        /\ \E i \in Instances : k2 \in Holds(i)

\* C10: the registry maps each identifier to the instance registered last
\* under it, and a step that routes a unicast message to a registered
\* identifier puts it once in the inbox of that instance and in no other.
C10_LastRegistrationWins ==
    /\ agents = registered
    /\ [][/\ agents' = registered'
          /\ \A k \in NewIds :
                (/\ message_log'[k].to_agent # "broadcast"
                 /\ message_log'[k].to_agent \in DOMAIN registered)
                => \A i \in Instances :
                      Count(message_queue'[i], k) =
                          IF i = registered[message_log'[k].to_agent] THEN 1 ELSE 0]_vars

\* C10's case: two instances were registered under one identifier, the
\* first got a message routed before the second registration and the second
\* one routed after it.
C10_Witness ==
    \E a1, a2 \in Instances :
        /\ a1 # a2
        /\ agent_id(a1) = agent_id(a2)
        /\ message_bus[a1]
        /\ registered[agent_id(a2)] = a2
        /\ \E k1 \in Holds(a1) : \E k2 \in Holds(a2) :
              /\ k1 < k2
              /\ message_log[k1].to_agent = agent_id(a1)
              /\ message_log[k2].to_agent = agent_id(a2)

\* C11: a start_optimization call with an identifier that is not in the
\* session map raises the unknown-session error and changes neither the log
\* nor any inbox; a call with a known identifier raises nothing and routes
\* exactly one message, a Command to the planner whose payload carries the
\* session id and that session's goal, which lands in the planner's inbox
\* and in no other.
C11_StartOptimization ==
    [][result'.call = "start_optimization"
       => LET sid == result'.session_id
              n == Len(message_log)
          IN IF sid \notin DOMAIN active_goals
             THEN /\ result'.exc = "ValueError"
                  /\ message_log' = message_log
                  /\ message_queue' = message_queue
             ELSE /\ result'.exc = NoExc
                  /\ Len(message_log') = n + 1
                  /\ SubSeq(message_log', 1, n) = message_log
                  /\ message_log'[n + 1].type = COMMAND
                  /\ message_log'[n + 1].to_agent = "planner"
                  /\ message_log'[n + 1].payload.session_id = sid
                  /\ message_log'[n + 1].payload.goal = active_goals[sid].goal
                  /\ message_queue' =
                         [message_queue EXCEPT !["planner"] = Append(@, n + 1)]]_vars

\* C11's case: a Command was routed for a known session, and a later call
\* with an unknown identifier failed.
C11_Witness ==
    /\ result.call = "start_optimization"
    /\ result.exc = "ValueError"
    /\ result.session_id \notin DOMAIN active_goals
    /\ \E k \in StartCommands : message_log[k].payload.goal = GoalText(1)

\* C12: a get_progress call raises nothing, returns the unknown-session
\* error result for an identifier that is not in the session map and the
\* session's id, goal and blackboard for one that is, and in both cases
\* leaves the session map with every blackboard, the log, the registry and
\* every agent's inbox, status, counters and binding as they were.
C12_ProgressReadOnly ==
    [][result'.call = "get_progress"
       => /\ result'.exc = NoExc
          /\ IF result'.session_id \notin DOMAIN active_goals
             THEN result'.value = [error |-> "Unknown session"]
             ELSE /\ result'.value.session_id = result'.session_id
                  /\ result'.value.goal = active_goals[result'.session_id].goal
                  /\ result'.value.data = active_goals[result'.session_id].data
                  /\ result'.value.system_stats.total_messages = Len(message_log)
          /\ UNCHANGED <<active_goals, message_log, agents, message_queue, context,
                         message_bus, status, tasks_completed, tasks_failed,
                         total_time>>]_vars

\* C12's case: the progress of an unknown session was asked for while a
\* known session's messages were queued and a handler was suspended.
C12_Witness ==
    /\ result.call = "get_progress"
    /\ result.value = [error |-> "Unknown session"]
    /\ active_goals # EmptyDict
    /\ \E i \in Instances : message_queue[i] # <<>>
    /\ \E i \in Instances : status[i] = WORKING

\* What every set_goal call does to the session map: the identifier it
\* returns was in no session, the new session is stored under it with that
\* identifier, and every earlier session stays as it was.
StoresFreshSession ==
    /\ result'.value \notin DOMAIN active_goals
    /\ DOMAIN active_goals' = DOMAIN active_goals \cup {result'.value}
    /\ active_goals'[result'.value].session_id = result'.value
    /\ \A sid \in DOMAIN active_goals : active_goals'[sid] = active_goals[sid]

\* C13 as stated: a set_goal call stores a fresh session beside the earlier
\* ones and binds to it every agent that was registered before the call, so
\* that every agent registered before the most recent set_goal is bound to
\* the most recent session.  (register_agent sets the agent's bus and nothing
\* unsets it: message_bus[i] tells that i was registered.)
C13_BindsEveryRegistered ==
    [][result'.call = "set_goal"
       => /\ StoresFreshSession
          /\ \A i \in Instances : message_bus[i] => context'[i] = result'.value]_vars

\* C13, amended: a set_goal call stores a fresh session beside the earlier
\* ones, binds to it every agent the registry holds at the call, which are
\* the agents registered before it and not replaced since by an agent
\* registered under the same identifier, and leaves every other agent with
\* the context it had; no other step changes a binding.
C13_BindsRegistry ==
    [][IF result'.call = "set_goal"
       THEN /\ StoresFreshSession
            /\ \A i \in Instances :
                  context'[i] = IF i \in Range(agents) THEN result'.value ELSE context[i]
       ELSE context' = context]_vars

\* C13's case: an agent was bound to the first session and then replaced in
\* the registry; the second set_goal has rebound the agents of the registry,
\* the replaced one keeps the first session, and both sessions are stored.
C13_Witness ==
    /\ result.call = "set_goal"
    /\ DOMAIN active_goals = {1, 2}
    /\ context["weather"] = 1
    /\ context["weather_b"] = 2
    /\ context["fuel"] = 2
    /\ message_bus["weather"]
    /\ agents["weather"] = "weather_b"

\* The responders of which the log holds no Response routed after message c.
Silent(c) ==
    {r \in Responders :
        \A k \in DOMAIN message_log :
            k > c => ~(message_log[k].from_agent = r /\ message_log[k].type = RESPONSE)}

\* The Requests the planner has sent to the responders.
FanoutRequests ==
    {k \in DOMAIN message_log :
        /\ message_log[k].from_agent = "planner"
        /\ message_log[k].type = REQUEST
        /\ message_log[k].to_agent \in Responders}

\* The blackboard of the context agent i is bound to.
Blackboard(i) == active_goals[context[i]].data

Quiescent ==
    \A i \in Instances : message_queue[i] = <<>> /\ pc[i] = "get"

\* C14: once the planner has fanned out, as long as one of the three
\* responders has sent no Response the planner has sent no consolidated
\* Request, the status tag is the waiting value and the pending set still
\* holds that responder, and the planner has sent no Request beyond the
\* three of the fan-out; a responder that never responds leaves it so in
\* every state that follows.
C14_StalledGather ==
    \A c \in CommandsProcessed("planner") :
        Silent(c) # {}
        => /\ Consolidated = {}
           /\ dict_get(Blackboard("planner"), "planning_status", NoneStr) = "waiting_for_data"
           /\ Silent(c) \subseteq
                 Range(dict_get(Blackboard("planner"), "pending_responses", <<>>))
           /\ Cardinality(FanoutRequests) = 3

\* C14's case: the Request to network was dropped, weather and fuel have
\* responded and the planner has processed their Responses, nothing is left
\* to do, and the session is still waiting.
C14_Witness ==
    /\ Quiescent
    /\ CommandsProcessed("planner") # {}
    /\ "network" \notin DOMAIN agents
    /\ tasks_completed["planner"] = 3
    /\ Blackboard("planner").pending_responses = <<"network">>
    /\ Blackboard("planner").planning_status = "waiting_for_data"
    /\ Consolidated = {}

\* C15: a send_message or broadcast_event call on an agent whose bus is not
\* set raises the precondition error to the caller, and leaves the log and
\* every inbox as they were.
C15_SendPrecondition ==
    [][(/\ result'.call \in {"send_message", "broadcast_event"}
        /\ ~message_bus[result'.from])
       => /\ result'.exc = "RuntimeError"
          /\ message_log' = message_log
          /\ message_queue' = message_queue]_vars

\* C15's case: a broadcast on an agent without a bus failed while two other
\* agents were registered and a message had been routed before.
C15_Witness ==
    /\ result.call = "broadcast_event"
    /\ result.exc = "RuntimeError"
    /\ ~message_bus[result.from]
    /\ Cardinality(DOMAIN agents) >= 2
    /\ message_log # <<>>

\* The messages the loop of i dequeues in the step.
Dequeued(i) == dispatched'[i] \ dispatched[i]

\* C16: the step in which the planner, bound to a context, processes a start
\* Command for session S routes exactly three messages, Requests of the
\* planner with correlation id S, one to each of weather, fuel and network,
\* and ends the handler with the pending set of the bound context's
\* blackboard holding exactly those three and its status tag at the waiting
\* value; and when the planner processes a Response of a responder, a
\* pending set has been recorded.
C16_FanoutStep ==
    [][\A k \in Dequeued("planner") :
          /\ (/\ message_log[k].type = COMMAND
              /\ action_of(message_log[k]) = "start_optimization"
              /\ context["planner"] # NoSession)
             => /\ Len(message_log') = Len(message_log) + 3
                /\ {message_log'[j].to_agent : j \in NewIds} = Responders
                /\ \A j \in NewIds :
                      /\ message_log'[j].from_agent = "planner"
                      /\ message_log'[j].type = REQUEST
                      /\ message_log'[j].correlation_id = message_log[k].payload.session_id
                      /\ Count(message_queue'[message_log'[j].to_agent], j) = 1
                /\ pc'["planner"] = "get"
                /\ tasks_completed'["planner"] = tasks_completed["planner"] + 1
                /\ Len(Blackboard("planner")'.pending_responses) = 3
                /\ Range(Blackboard("planner")'.pending_responses) = Responders
                /\ Blackboard("planner")'.planning_status = "waiting_for_data"
          /\ (/\ message_log[k].type = RESPONSE
              /\ message_log[k].from_agent \in Responders)
             => \E sid \in DOMAIN active_goals :
                   "pending_responses" \in DOMAIN active_goals[sid].data]_vars

\* C16's case: the planner has processed the start Command, the three
\* Requests wait in the responders' inboxes, and the pending set and the
\* status tag are recorded.
C16_Witness ==
    /\ CommandsProcessed("planner") # {}
    /\ pc["planner"] = "get"
    /\ \A r \in Responders :
          /\ message_queue[r] # <<>>
          /\ message_log[Head(message_queue[r])].from_agent = "planner"
          /\ message_log[Head(message_queue[r])].correlation_id
                = message_log[CHOOSE c \in CommandsProcessed("planner") : TRUE].payload.session_id
    /\ Blackboard("planner").pending_responses = <<"weather", "fuel", "network">>
    /\ Blackboard("planner").planning_status = "waiting_for_data"

\* The pending set and the status tag of the context agent i is bound to.
Pending(i) == dict_get(Blackboard(i), "pending_responses", <<>>)

StatusTag(i) == dict_get(Blackboard(i), "planning_status", NoneStr)

\* C17: whenever the planner stands between two handlers, the pending set
\* of its bound session is not empty while the status tag is the waiting
\* value; and the step that removes the last sender from the pending set
\* sends the consolidated Request and sets the tag to the advancing value
\* in that same step.
C17_NoLostAdvancement ==
    /\ [](\A i \in {"planner"} :
             (pc[i] = "get" /\ context[i] # NoSession)
             => ~(Pending(i) = <<>> /\ StatusTag(i) = "waiting_for_data"))
    /\ [][\A i \in {"planner"} :
             (/\ context[i] # NoSession
              /\ context'[i] = context[i]
              /\ Pending(i) # <<>>
              /\ Pending(i)' = <<>>)
             => /\ Cardinality(Consolidated') = Cardinality(Consolidated) + 1
                /\ StatusTag(i)' = "optimizing"]_vars

\* C17's case: the last sender was removed and the next stage triggered
\* while another Response waited in the planner's inbox.
C17_Witness ==
    /\ pc["planner"] = "get"
    /\ context["planner"] # NoSession
    /\ "pending_responses" \in DOMAIN Blackboard("planner")
    /\ Pending("planner") = <<>>
    /\ StatusTag("planner") = "optimizing"
    /\ Cardinality(Consolidated) = 1
    /\ \E p \in DOMAIN message_queue["planner"] :
          message_log[message_queue["planner"][p]].type = RESPONSE

\* C18: a step in which the planner processes a Response while the status
\* tag of its bound session is the advancing value routes no message,
\* counts the Response as a completed task and not as a failed one, and
\* leaves every blackboard, with the pending set, the status tag and the
\* stored payloads, as it was.
C18_AdvancingTerminal ==
    [][\A k \in Dequeued("planner") :
          (/\ message_log[k].type = RESPONSE
           /\ context["planner"] # NoSession
           /\ StatusTag("planner") = "optimizing")
          => /\ message_log' = message_log
             /\ active_goals' = active_goals
             /\ k \notin raised'["planner"]
             /\ tasks_completed'["planner"] = tasks_completed["planner"] + 1
             /\ tasks_failed'["planner"] = tasks_failed["planner"]
             /\ status'["planner"] = IDLE]_vars

\* C18's case: after the consolidated Request the planner has processed the
\* optimizer's Response and a late Response of a responder, and one
\* consolidated Request is all it has sent.
C18_Witness ==
    /\ Cardinality(Consolidated) = 1
    /\ StatusTag("planner") = "optimizing"
    /\ tasks_failed["planner"] = 0
    /\ \E o \in Consolidated : \E k1, k2 \in dispatched["planner"] :
          /\ k1 > o /\ k2 > o
          /\ message_log[k1].type = RESPONSE /\ message_log[k1].from_agent = "optimizer"
          /\ message_log[k2].type = RESPONSE /\ message_log[k2].from_agent \in Responders

\* The Responses of sender r the planner has processed after message c, and
\* the first of them.
ResponsesAfter(r, c) ==
    {k \in dispatched["planner"] :
        /\ k > c
        /\ message_log[k].type = RESPONSE
        /\ message_log[k].from_agent = r}

FirstResponse(r, c) ==
    CHOOSE k \in ResponsesAfter(r, c) : \A j \in ResponsesAfter(r, c) : k <= j

\* C19: a step in which the planner, its bound session waiting, processes a
\* Response of a sender that is not in the pending set routes no message and
\* leaves every blackboard as it was, pending set and stored payloads
\* included; and the payload stored under a responder's key is always that
\* of the first Response of that responder the planner processed after the
\* Command, however many followed.
C19_DuplicateIdempotent ==
    /\ [](\A c \in CommandsProcessed("planner") : \A r \in Responders :
             (r \o "_data") \in DOMAIN Blackboard("planner")
             => /\ ResponsesAfter(r, c) # {}
                /\ Blackboard("planner")[r \o "_data"]
                      = message_log[FirstResponse(r, c)].payload)
    /\ [][\A k \in Dequeued("planner") :
             (/\ message_log[k].type = RESPONSE
              /\ context["planner"] # NoSession
              /\ StatusTag("planner") = "waiting_for_data"
              /\ message_log[k].from_agent \notin Range(Pending("planner")))
             => /\ active_goals' = active_goals
                /\ message_log' = message_log
                /\ tasks_completed'["planner"] = tasks_completed["planner"] + 1
                /\ tasks_failed'["planner"] = tasks_failed["planner"]]_vars

\* C19's case: while the session waits for another responder, the planner
\* has processed two Responses of one responder, and the payload stored is
\* the first one's, which differs from the second's.
C19_Witness ==
    /\ context["planner"] # NoSession
    /\ StatusTag("planner") = "waiting_for_data"
    /\ Pending("planner") # <<>>
    /\ \E r \in Responders : \E k1, k2 \in dispatched["planner"] :
          /\ k1 < k2
          /\ message_log[k1].type = RESPONSE /\ message_log[k1].from_agent = r
          /\ message_log[k2].type = RESPONSE /\ message_log[k2].from_agent = r
          /\ message_log[k1].payload # message_log[k2].payload
          /\ (r \o "_data") \in DOMAIN Blackboard("planner")
          /\ Blackboard("planner")[r \o "_data"] = message_log[k1].payload

\* C20: every consolidated Request carries, under weather_data, fuel_data
\* and network_data, the payload of the Response that removed that sender
\* from the pending set, which is the first Response of the sender the
\* planner processed after the Command; none of the three is None; and the
\* blackboard of the context the Request was sent under, the one its
\* correlation id names, holds the same payload under the same key.
C20_ConsolidatedPayload ==
    \A o \in Consolidated : \A c \in CommandsProcessed("planner") : \A r \in Responders :
        /\ ResponsesAfter(r, c) # {}
        /\ FirstResponse(r, c) < o
        /\ message_log[o].payload[r \o "_data"] # None
        /\ message_log[o].payload[r \o "_data"] = message_log[FirstResponse(r, c)].payload
        /\ (r \o "_data") \in DOMAIN active_goals[message_log[o].correlation_id].data
        /\ active_goals[message_log[o].correlation_id].data[r \o "_data"]
              = message_log[FirstResponse(r, c)].payload

\* C20's case: the consolidated Request was sent after one responder's
\* Response had been processed twice, and it carries the payload of the
\* first, the one that removed the sender, not that of the second.
C20_Witness ==
    \E o \in Consolidated : \E r \in Responders : \E k1, k2 \in dispatched["planner"] :
        /\ k1 < k2 /\ k2 < o
        /\ message_log[k1].type = RESPONSE /\ message_log[k1].from_agent = r
        /\ message_log[k2].type = RESPONSE /\ message_log[k2].from_agent = r
        /\ message_log[o].payload[r \o "_data"] = message_log[k1].payload
        /\ message_log[o].payload[r \o "_data"] # message_log[k2].payload
        /\ \A q \in Responders : message_log[o].payload[q \o "_data"] # None

\* The optimizer's Response to the planner, and its completion events.
OptimizerResponses ==
    {k \in DOMAIN message_log : IsMessage(k, "optimizer", "planner", RESPONSE)}

CompletionEvents ==
    {k \in DOMAIN message_log :
        /\ IsMessage(k, "optimizer", "broadcast", EVENT)
        /\ message_log[k].payload.event = "optimization_complete"}

\* The workflow of the started session has run to its end.
WorkflowDone ==
    /\ Cardinality(Consolidated) = 1
    /\ Cardinality(OptimizerResponses) = 1
    /\ Cardinality(CompletionEvents) = 1
    /\ \A o \in Consolidated : \A k \in OptimizerResponses : \A e \in CompletionEvents :
          /\ o < k /\ k < e
          /\ e \in dispatched["critic"]
          /\ "last_prediction" \in DOMAIN Blackboard("critic")
          /\ Blackboard("critic").last_prediction = message_log[e].payload.data
    /\ Quiescent
    /\ \A i \in Instances : status[i] = IDLE /\ tasks_failed[i] = 0

\* C21: with the six agents registered before the goal is set and every
\* loop scheduled fairly, a routed start Command leads to the state where
\* the planner has sent the consolidated Request, the optimizer has sent
\* its Response and then broadcast the completion event, the critic has
\* processed the event and stored last_prediction, every inbox is empty and
\* every agent is idle; and the system stays in that state.
C21_WorkflowLiveness ==
    /\ (StartCommands # {}) ~> WorkflowDone
    /\ [][WorkflowDone => WorkflowDone']_vars

\* C21's case: the workflow has run to its end, and the six loops have
\* handled the ten messages it routes.
C21_Witness ==
    /\ WorkflowDone
    /\ Len(message_log) = 10
    /\ tasks_completed["planner"] = 6
    /\ tasks_completed["critic"] = 1

\* C22: a step in which the planner processes a Response whose correlation
\* id is session S1 leaves the blackboard of every other session as it was,
\* pending set and stored payloads included; and a consolidated Request with
\* correlation id S2 is sent only after each of weather, fuel and network
\* has sent a Response with correlation id S2.
C22_SessionScoped ==
    /\ [](\A o \in Consolidated : \A r \in Responders :
             \E k \in 1..(o - 1) :
                 /\ IsMessage(k, r, "planner", RESPONSE)
                 /\ message_log[k].correlation_id = message_log[o].correlation_id)
    /\ [][\A k \in Dequeued("planner") :
             message_log[k].type = RESPONSE
             => \A sid \in DOMAIN active_goals \ {message_log[k].correlation_id} :
                   active_goals'[sid] = active_goals[sid]]_vars

\* C23: the planner sends at most one consolidated Request per session,
\* however often start_optimization is called for the session.
C23_OneAdvancementPerSession ==
    \A o1, o2 \in Consolidated :
        message_log[o1].correlation_id = message_log[o2].correlation_id => o1 = o2

\* C24: the log only grows at its end, by one entry for every call of send
\* the step makes, whether the message goes to a registered agent, to an
\* unknown recipient or to all; its earlier entries stay as they were; a
\* message that is in an inbox is in the log; and total_messages of the
\* system stats is the number of send calls made so far.
C24_LogAppendOnly ==
    /\ [](/\ get_system_stats.total_messages = route_calls
          /\ \A i \in Instances : Range(message_queue[i]) \subseteq DOMAIN message_log)
    /\ [][/\ Len(message_log') - Len(message_log) = route_calls' - route_calls
          /\ Len(message_log') >= Len(message_log)
          /\ SubSeq(message_log', 1, Len(message_log)) = message_log]_vars

\* C24's case: a message to an unknown recipient and a broadcast that two
\* agents received were routed; the log holds both.
C24_Witness ==
    /\ route_calls = 2
    /\ Len(message_log) = 2
    /\ \E k \in DOMAIN message_log :
          /\ message_log[k].to_agent = "nobody"
          /\ \A i \in Instances : k \notin Holds(i)
    /\ \E k \in DOMAIN message_log :
          /\ message_log[k].to_agent = "broadcast"
          /\ Cardinality({i \in Instances : k \in Holds(i)}) >= 2

\* The scatter/gather entries of a blackboard: the pending set and the tag.
GatherState(data) ==
    <<"pending_responses" \in DOMAIN data, dict_get(data, "pending_responses", <<>>),
      dict_get(data, "planning_status", NoneStr)>>

\* C25: a step that changes the pending set or the status tag on the
\* blackboard of an existing session is a step in which the planner
\* processes a Command or a Response; the handlers of the other agents, the
\* bus and the coordinator leave them as they are.
C25_PlannerOnlyWrites ==
    [][\A sid \in DOMAIN active_goals :
          GatherState(active_goals'[sid].data) # GatherState(active_goals[sid].data)
          => /\ Dequeued("planner") # {}
             /\ \A k \in Dequeued("planner") : message_log[k].type \in {COMMAND, RESPONSE}
             /\ \A i \in Instances \ {"planner"} :
                   Dequeued(i) = {} /\ pc'[i] = pc[i]]_vars

\* C25's case: the critic has written its prediction on a blackboard that
\* holds the planner's pending set and status tag, and a second session was
\* created meanwhile.
C25_Witness ==
    \E sid \in DOMAIN active_goals :
        /\ "last_prediction" \in DOMAIN active_goals[sid].data
        /\ GatherState(active_goals[sid].data) = <<TRUE, <<>>, "optimizing">>
        /\ Cardinality(DOMAIN active_goals) = 2

\* The status the last message an agent dequeued has left, if its handler
\* has ended: the inbox is first in first out and a message's id is its
\* place in the order of routing, so the last one dequeued has the largest
\* id.
LastHandledFailed(i) ==
    /\ dispatched[i] # {}
    /\ \A k \in dispatched[i] : \E j \in raised[i] : k <= j

SettledStatus(i) == IF LastHandledFailed(i) THEN ERROR ELSE IDLE

\* C26 as stated: whenever no handler of an agent is running, its completed
\* and failed counts add up to the number of messages it has dequeued and
\* its status is idle or error as its last message succeeded or failed; and
\* its status is working only while a handler is running.
C26_TaskAccounting ==
    \A i \in Instances :
        /\ pc[i] # "sleep"
           => /\ tasks_completed[i] + tasks_failed[i] = Cardinality(dispatched[i])
              /\ tasks_failed[i] = Cardinality(raised[i])
              /\ status[i] = SettledStatus(i)
        /\ status[i] = WORKING => pc[i] = "sleep"

\* C26, amended: every message whose handler returned or raised is counted
\* once, as completed or as failed; a message whose handler was cut off by
\* the cancellation of the loop is counted as neither and leaves the status
\* at working.  So the counts add up to the messages dequeued less the one
\* whose handler has not ended; with none such the status is idle or error
\* as the last message succeeded or failed; and the status is working
\* exactly when a dequeued message's handler has not ended, be it running
\* or cut off.
C26_TaskAccountingUncancelled ==
    \A i \in Instances :
        /\ tasks_failed[i] = Cardinality(raised[i])
        /\ InHandler(i) \in {0, 1}
        /\ pc[i] = "sleep" => InHandler(i) = 1
        /\ pc[i] = "get" => InHandler(i) = 0
        /\ InHandler(i) = 0 => status[i] = SettledStatus(i)
        /\ InHandler(i) = 1 <=> status[i] = WORKING

\* C26's case: an agent stands between two handlers with one message
\* completed and a later one failed, and another loop was cancelled.
C26_Witness ==
    /\ \E i \in Instances :
          /\ pc[i] = "get"
          /\ tasks_completed[i] = 1
          /\ tasks_failed[i] = 1
          /\ status[i] = ERROR
    /\ \E j \in Instances : pc[j] = "stopped"

=============================================================================
